---- MODULE Spec2Model ----
(***************************************************************************)
(* Conversation memory of the Laxmi Honey backend: session keys, the Redis *)
(* chat-history service (app/redis_service.py), the Groq completion        *)
(* wrapper (app/llmwrapper.py) and the chat / history / clear handlers     *)
(* (app/laxmihoneyapp/routes.py).                                          *)
(*                                                                         *)
(* Python strings are sequences of one-character strings, so that          *)
(* f-string concatenation, the "in" substring test, str.strip and the      *)
(* JSON encoding are computed character by character.                      *)
(***************************************************************************)
EXTENDS Integers, Sequences, FiniteSets, TLC

(* ------------------------------------------------------------------ *)
(* Strings                                                            *)
(* ------------------------------------------------------------------ *)

\* Python's None for an Optional[str]; no string equals it.
None == <<"None">>

QUOTE == "\""
BACKSLASH == "\\"
NEWLINE == "\n"

\* str.startswith
StartsWith(s, pre) ==
    /\ Len(s) >= Len(pre)
    /\ SubSeq(s, 1, Len(pre)) = pre

\* str.endswith
EndsWith(s, suf) ==
    /\ Len(s) >= Len(suf)
    /\ SubSeq(s, Len(s) - Len(suf) + 1, Len(s)) = suf

\* Python's  sub in s  on strings
Contains(s, sub) ==
    \E i \in 1..(Len(s) - Len(sub) + 1) : SubSeq(s, i, i + Len(sub) - 1) = sub

\* the at-position form of startswith, used by the JSON decoder
HasAt(s, i, lit) ==
    /\ i + Len(lit) - 1 <= Len(s)
    /\ SubSeq(s, i, i + Len(lit) - 1) = lit

IsSpace(c) == c \in {" ", NEWLINE, "\t", "\r"}

RECURSIVE LStrip(_)
LStrip(s) ==
    IF s # <<>> /\ IsSpace(Head(s)) THEN LStrip(Tail(s)) ELSE s

RECURSIVE RStrip(_)
RStrip(s) ==
    IF s # <<>> /\ IsSpace(s[Len(s)]) THEN RStrip(SubSeq(s, 1, Len(s) - 1)) ELSE s

\* str.strip()
Strip(s) == RStrip(LStrip(s))

\* "".join(parts)
RECURSIVE Join(_)
Join(parts) ==
    IF parts = <<>> THEN <<>> ELSE Head(parts) \o Join(Tail(parts))

(* ------------------------------------------------------------------ *)
(* JSON, as json.dumps writes a message and json.loads reads an entry  *)
(* ------------------------------------------------------------------ *)

\* the pieces json.dumps puts around the two values of
\* {"role": ..., "content": ...}
JsonOpen == <<"{", QUOTE, "r", "o", "l", "e", QUOTE, ":", " ", QUOTE>>
JsonMid == <<QUOTE, ",", " ", QUOTE, "c", "o", "n", "t", "e", "n", "t", QUOTE, ":", " ", QUOTE>>
JsonClose == <<QUOTE, "}">>

\* EscapeChar with the escaping forgotten
EscapeCharRaw(c) == <<c>>

\* one character inside a JSON string literal
EscapeChar(c) ==
    CASE c = QUOTE -> <<BACKSLASH, QUOTE>>
      [] c = BACKSLASH -> <<BACKSLASH, BACKSLASH>>
      [] c = NEWLINE -> <<BACKSLASH, "n">>
      [] OTHER -> <<c>>

RECURSIVE JsonEscape(_)
JsonEscape(s) ==
    IF s = <<>> THEN <<>> ELSE EscapeChar(Head(s)) \o JsonEscape(Tail(s))

\* a stored message: {"role": role, "content": content}
Msg(role, content) == [role |-> role, content |-> content]

\* json.dumps(msg)
json_dumps(msg) ==
    JsonOpen \o JsonEscape(msg.role) \o JsonMid \o JsonEscape(msg.content) \o JsonClose

\* what json.loads raises on text that is no JSON document
JSONDecodeError == [error |-> "JSONDecodeError"]

\* Reads a string literal whose opening quote is at i - 1: the decoded
\* characters up to the closing quote and the position after it, or
\* ok = FALSE when the literal is not terminated or has a bad escape.
RECURSIVE ScanString(_, _, _)
ScanString(s, i, acc) ==
    IF i > Len(s) THEN [ok |-> FALSE, val |-> <<>>, next |-> i]
    ELSE IF s[i] = QUOTE THEN [ok |-> TRUE, val |-> acc, next |-> i + 1]
    ELSE IF s[i] = BACKSLASH THEN
        IF i + 1 > Len(s) THEN [ok |-> FALSE, val |-> <<>>, next |-> i]
        ELSE IF s[i + 1] = QUOTE THEN ScanString(s, i + 2, Append(acc, QUOTE))
        ELSE IF s[i + 1] = BACKSLASH THEN ScanString(s, i + 2, Append(acc, BACKSLASH))
        ELSE IF s[i + 1] = "n" THEN ScanString(s, i + 2, Append(acc, NEWLINE))
        ELSE [ok |-> FALSE, val |-> <<>>, next |-> i]
    ELSE IF s[i] = NEWLINE THEN [ok |-> FALSE, val |-> <<>>, next |-> i]
    ELSE ScanString(s, i + 1, Append(acc, s[i]))

\* json.loads(text) on the documents a chat list can hold: an object
\* {"role": "...", "content": "..."} gives the message, a lone string
\* literal gives that string (valid JSON, not a message), anything else
\* raises JSONDecodeError.
json_loads(text) ==
    IF StartsWith(text, JsonOpen) THEN
        LET r == ScanString(text, Len(JsonOpen) + 1, <<>>) IN
        IF ~r.ok \/ ~HasAt(text, r.next - 1, JsonMid) THEN JSONDecodeError
        ELSE
            LET c == ScanString(text, r.next - 1 + Len(JsonMid), <<>>) IN
            IF c.ok /\ c.next = Len(text) /\ text[c.next] = "}"
            THEN Msg(r.val, c.val)
            ELSE JSONDecodeError
    ELSE IF text # <<>> /\ Head(text) = QUOTE THEN
        LET v == ScanString(text, 2, <<>>) IN
        IF v.ok /\ v.next = Len(text) + 1 THEN [str |-> v.val] ELSE JSONDecodeError
    ELSE JSONDecodeError

(* ------------------------------------------------------------------ *)
(* Session keys                                                       *)
(* ------------------------------------------------------------------ *)

ChatAnonPrefix == <<"c", "h", "a", "t", "-", "a", "n", "o", "n", ":">>
ChatAuthPrefix == <<"c", "h", "a", "t", "-", "a", "u", "t", "h", ":">>
MainSlot == <<":", "m", "a", "i", "n">>

\* AnonKey written with the other handler's prefix
AnonKeyAuthPrefix(anonymousId) == ChatAuthPrefix \o anonymousId \o MainSlot

\* f"chat-anon:{request.anonymousId}:main"
AnonKey(anonymousId) == ChatAnonPrefix \o anonymousId \o MainSlot

\* f"chat-auth:{user_id}:main"
AuthKey(user_id) == ChatAuthPrefix \o user_id \o MainSlot

(* ------------------------------------------------------------------ *)
(* Inputs                                                             *)
(* ------------------------------------------------------------------ *)

IdX == <<"x">>
\* an identity that holds the text of the anonymous namespace
IdTricky == ChatAnonPrefix \o <<"x">>
\* what an f-string writes for None
NoneText == <<"N", "o", "n", "e">>

\* the identity the requests carry, as anonymousId and as the uid of a token
Identities == {IdX}
\* identities for the keys alone
KeyIdentities == {IdX, IdTricky, <<":">>, ChatAuthPrefix \o <<"x">>, <<"x">> \o MainSlot}
\* the anonymousId field of a request: absent, empty or an identity
AnonymousIds == {None, <<>>} \cup Identities

\* every key a handler can write into an f-string
Keys ==
    {AnonKey(i) : i \in KeyIdentities \cup {<<>>, NoneText}}
        \cup {AuthKey(i) : i \in KeyIdentities \cup {<<>>, NoneText}}

RoleUser == <<"u", "s", "e", "r">>
RoleAssistant == <<"a", "s", "s", "i", "s", "t", "a", "n", "t">>

MsgHi == <<"h">>
MsgQuote == <<QUOTE, BACKSLASH>>
\* request.message: empty, blank, or text (one with characters JSON escapes)
Messages == {<<>>, <<" ">>, MsgHi, MsgQuote}

\* text of a completion
ReplyOk == <<"o", "k">>

\* SYSTEM_PROMPT_PUBLIC and SYSTEM_PROMPT_AUTHENTICATED, their text
\* shortened to one letter each
SYSTEM_PROMPT_PUBLIC == <<"P">>
SYSTEM_PROMPT_AUTHENTICATED == <<"A">>

(* ------------------------------------------------------------------ *)
(* Redis: lists with a time to live.  st maps a key to its list (the   *)
(* empty list is an absent key), tt to its remaining seconds, 0 for a  *)
(* key that has no expiry set.                                         *)
(* ------------------------------------------------------------------ *)

\* RPush putting the value at the head of the list (LPUSH)
RPushFront(st, key, value) == [st EXCEPT ![key] = <<value>> \o @]

\* RPUSH key value
RPush(st, key, value) == [st EXCEPT ![key] = Append(@, value)]

\* EXPIRE key seconds: only an existing key takes a timeout
Expire(st, tt, key, seconds) ==
    IF st[key] # <<>> THEN [tt EXCEPT ![key] = seconds] ELSE tt

\* LRANGE key 0 -1
LRange(st, key) == st[key]

\* DEL key: the number of keys removed
DelCount(st, key) == IF st[key] # <<>> THEN 1 ELSE 0
DelStore(st, key) == [st EXCEPT ![key] = <<>>]
DelTtl(tt, key) == [tt EXCEPT ![key] = 0]

\* dt seconds pass: keys whose timeout runs out are removed
AgeStore(st, tt, dt) ==
    [k \in DOMAIN st |-> IF tt[k] > 0 /\ tt[k] <= dt THEN <<>> ELSE st[k]]
AgeTtl(tt, dt) ==
    [k \in DOMAIN tt |-> IF tt[k] > dt THEN tt[k] - dt ELSE 0]

(* ------------------------------------------------------------------ *)
(* RedisChatService                                                   *)
(* ------------------------------------------------------------------ *)

TTL_ANON == 86400
TTL_AUTH == 2592000
DEFAULT_MAX_HISTORY == 10

\* the two messages save_chat_history builds
TurnMessages(user_message, bot_response) ==
    <<Msg(RoleUser, user_message), Msg(RoleAssistant, bot_response)>>

\* the timeout save_chat_history chooses for a key
ExpirySeconds(key) ==
    IF Contains(key, ChatAnonPrefix) THEN TTL_ANON ELSE TTL_AUTH

\* the parse loop of get_history: entries json.loads rejects are skipped
RECURSIVE ParseEntries(_)
ParseEntries(raw) ==
    IF raw = <<>> THEN <<>>
    ELSE LET v == json_loads(Head(raw)) IN
         IF v = JSONDecodeError THEN ParseEntries(Tail(raw))
         ELSE <<v>> \o ParseEntries(Tail(raw))

\* get_history handing the caller an error entry when the store is not reached
get_history_error_entry(client, fails, st, key) ==
    IF ~client \/ fails THEN <<JSONDecodeError>>
    ELSE ParseEntries(LRange(st, key))

\* get_history(key); client: redis_client is set; fails: LRANGE raises
get_history(client, fails, st, key) ==
    IF ~client THEN <<>>
    ELSE IF fails THEN <<>>
    ELSE ParseEntries(LRange(st, key))

\* Python's  seq[-n:]
SliceLast(seq, n) ==
    LET start0 == 0 - n
        start == IF start0 < 0
                 THEN (IF Len(seq) + start0 > 0 THEN Len(seq) + start0 ELSE 0)
                 ELSE (IF start0 < Len(seq) THEN start0 ELSE Len(seq))
    IN SubSeq(seq, start + 1, Len(seq))

\* the history generate_full_prompt keeps
TrimHistory(history, max_history) ==
    IF Len(history) > max_history * 2
    THEN SliceLast(history, max_history * 2)
    ELSE history

StrSystemContext == <<"S", "y", "s", "t", "e", "m", " ", "C", "o", "n", "t", "e", "x", "t", ":", " ">>
StrSeparator == <<NEWLINE, "-", "-", "-", NEWLINE>>
StrPrevious ==
    <<"P", "r", "e", "v", "i", "o", "u", "s", " ", "c", "o", "n", "v", "e", "r", "s", "a", "t", "i", "o", "n", ":", NEWLINE>>
StrUser == <<"U", "s", "e", "r">>
StrAssistant == <<"A", "s", "s", "i", "s", "t", "a", "n", "t">>
StrCue == <<"A", "s", "s", "i", "s", "t", "a", "n", "t", ":">>

\* msg["role"] and msg["content"] exist only on a dict with those keys
IsMessageDict(msg) == DOMAIN msg = {"role", "content"}

\* HistoryLine with every message attributed to the user
HistoryLineAllUser(msg) ==
    StrUser \o <<":", " ">> \o msg.content \o <<NEWLINE>>

\* f"{role}: {msg['content']}\n"
HistoryLine(msg) ==
    (IF msg.role = RoleUser THEN StrUser ELSE StrAssistant)
        \o <<":", " ">> \o msg.content \o <<NEWLINE>>

\* PromptParts with the two history tests the wrong way round
PromptPartsSwapped(history0, new_message, system_prompt, max_history) ==
    LET history == TrimHistory(history0, max_history) IN
    (IF history # <<>>
     THEN <<StrSystemContext \o system_prompt, StrSeparator>>
     ELSE <<>>)
    \o (IF history = <<>>
        THEN <<StrPrevious>> \o [i \in 1..Len(history) |-> HistoryLine(history[i])]
                 \o <<StrSeparator>>
        ELSE <<>>)
    \o <<StrUser \o <<":", " ">> \o new_message \o <<NEWLINE>>, StrCue>>

\* prompt_parts of generate_full_prompt, history being what get_history gave
PromptParts(history0, new_message, system_prompt, max_history) ==
    LET history == TrimHistory(history0, max_history) IN
    (IF history = <<>>
     THEN <<StrSystemContext \o system_prompt, StrSeparator>>
     ELSE <<>>)
    \o (IF history # <<>>
        THEN <<StrPrevious>> \o [i \in 1..Len(history) |-> HistoryLine(history[i])]
                 \o <<StrSeparator>>
        ELSE <<>>)
    \o <<StrUser \o <<":", " ">> \o new_message \o <<NEWLINE>>, StrCue>>

\* generate_full_prompt: raised when an entry of the history is not a
\* dict with role and content, the joined text otherwise
generate_full_prompt(history0, new_message, system_prompt, max_history) ==
    IF \E i \in 1..Len(TrimHistory(history0, max_history)) :
           ~IsMessageDict(TrimHistory(history0, max_history)[i])
    THEN [raised |-> TRUE, parts |-> <<>>, text |-> <<>>]
    ELSE [raised |-> FALSE,
          parts |-> PromptParts(history0, new_message, system_prompt, max_history),
          text |-> Join(PromptParts(history0, new_message, system_prompt, max_history))]

\* save_chat_history as one call.  failAt names the Redis call that
\* raises: 1 and 2 the two RPUSH, 3 the EXPIRE, 0 none.
SaveStore(client, failAt, st, key, user_message, bot_response) ==
    LET m == TurnMessages(user_message, bot_response)
        s1 == RPush(st, key, json_dumps(m[1]))
        s2 == RPush(s1, key, json_dumps(m[2]))
    IN IF ~client \/ failAt = 1 THEN st
       ELSE IF failAt = 2 THEN s1
       ELSE s2

SaveTtl(client, failAt, st, tt, key, user_message, bot_response) ==
    IF ~client \/ failAt # 0 THEN tt
    ELSE Expire(SaveStore(client, failAt, st, key, user_message, bot_response),
                tt, key, ExpirySeconds(key))

SaveReturn(client, failAt) == client /\ failAt = 0

\* delete_key: the count returned, 0 without a client or when DEL raises
delete_key_count(client, fails, st, key) ==
    IF ~client \/ fails THEN 0 ELSE DelCount(st, key)
\* delete_key_store removing the fixed key of another session
delete_key_store_other(client, fails, st, key) ==
    IF ~client \/ fails THEN st ELSE DelStore(st, AnonKey(NoneText))
\* delete_key_store removing the anonymous list of the identity as well
delete_key_store_both(client, fails, st, key) ==
    IF ~client \/ fails THEN st ELSE DelStore(DelStore(st, key), AnonKey(IdX))
delete_key_store(client, fails, st, key) ==
    IF ~client \/ fails THEN st ELSE DelStore(st, key)
delete_key_ttl(client, fails, tt, key) ==
    IF ~client \/ fails THEN tt ELSE DelTtl(tt, key)

(* ------------------------------------------------------------------ *)
(* State                                                              *)
(* ------------------------------------------------------------------ *)

Procs == {1, 2}

VARIABLES
    store,          \* Redis: key -> list of stored strings
    ttl,            \* Redis: key -> remaining seconds, 0 when none is set
    ticks,          \* how often time has advanced
    redis_client,   \* RedisChatService.redis_client is set (FALSE: None)
    llm,            \* routes.llm is set (FALSE: None)
    pc,             \* per request slot: where its handler stands
    req,            \* per request slot: the request being handled
    key,            \* per request slot: redis_key
    full_prompt,    \* per request slot: the prompt built, until the completion call takes it
    response,       \* per request slot: what llm._call returned
    outcome,        \* per request slot: the completion call ended "ok" or "failed"
    result,         \* per request slot: the HTTP result of the handler
    ops,            \* per request slot: the Redis and completion calls it has made
    started,        \* requests accepted so far
    savedBy,        \* key -> the user types whose handlers pushed onto it
    lastClear,      \* key -> outcome of the last clear with no RPUSH since
    svc             \* the direct call of a RedisChatService method that just returned

redisVars == <<store, ttl, ticks>>
procVars == <<pc, req, key, full_prompt, response, outcome, result, ops, started, savedBy, lastClear>>
vars == <<store, ttl, ticks, redis_client, llm, pc, req, key, full_prompt, response, outcome,
          result, ops, started, savedBy, lastClear, svc>>

\* bounds of the model
MaxTicks == 2
MaxStored == 4
MaxWindow == 1
MaxRequests == 2

\* seconds by which time advances in one step: half a day, thirty days
TickSteps == {TTL_ANON \div 2, TTL_AUTH}

NoRequest == [endpoint |-> "none", message |-> <<>>, anonymousId |-> None, token |-> None]
NoResult == [status_code |-> 0, status |-> "", response |-> <<>>, history |-> <<>>, detail |-> ""]
NoCall == [op |-> "none", key |-> <<>>, args |-> <<>>, ret |-> <<>>, before |-> <<>>]

Init ==
    /\ store = [k \in Keys |-> <<>>]
    /\ ttl = [k \in Keys |-> 0]
    /\ ticks = 0
    /\ redis_client \in BOOLEAN
    /\ llm \in BOOLEAN
    /\ pc = [p \in Procs |-> "idle"]
    /\ req = [p \in Procs |-> NoRequest]
    /\ key = [p \in Procs |-> None]
    /\ full_prompt = [p \in Procs |-> None]
    /\ response = [p \in Procs |-> None]
    /\ outcome = [p \in Procs |-> "none"]
    /\ result = [p \in Procs |-> NoResult]
    /\ ops = [p \in Procs |-> <<>>]
    /\ started = 0
    /\ savedBy = [k \in Keys |-> {}]
    /\ lastClear = [k \in Keys |-> "none"]
    /\ svc = NoCall

\* time passes
Tick ==
    /\ ticks < MaxTicks
    /\ svc = NoCall
    /\ \E dt \in TickSteps :
        /\ store' = AgeStore(store, ttl, dt)
        /\ ttl' = AgeTtl(ttl, dt)
    /\ ticks' = ticks + 1
    /\ UNCHANGED <<redis_client, llm, procVars, svc>>

(* ------------------------------------------------------------------ *)
(* The service called directly, one method at a time                  *)
(* ------------------------------------------------------------------ *)

\* keys the handlers build for the identities
SvcKeys == {AnonKey(IdX), AuthKey(IdX), AuthKey(IdTricky)}
SvcMessages == {MsgHi, MsgQuote}
SvcReplies == {ReplyOk}
SvcSystemPrompts == {<<>>, <<"S">>}
\* max_history: none, a small window, the default
SvcWindows == {0, MaxWindow, DEFAULT_MAX_HISTORY}

RECURSIVE SumLen(_, _)
SumLen(st, ks) ==
    IF ks = {} THEN 0
    ELSE LET k == CHOOSE x \in ks : TRUE IN Len(st[k]) + SumLen(st, ks \ {k})

TotalStored == SumLen(store, Keys)

\* save_chat_history(key, user_message, bot_response)
SvcSave(k, u, r, failAt) ==
    /\ TotalStored + 2 <= MaxStored
    /\ svc = NoCall
    /\ store' = SaveStore(redis_client, failAt, store, k, u, r)
    /\ ttl' = SaveTtl(redis_client, failAt, store, ttl, k, u, r)
    /\ svc' = [op |-> "save", key |-> k, args |-> <<u, r>>,
               ret |-> SaveReturn(redis_client, failAt),
               before |-> get_history(redis_client, FALSE, store, k)]
    /\ UNCHANGED <<ticks, redis_client, llm, procVars>>

\* SvcGetHistory with the read renewing the timeout of the key
SvcGetHistoryRefreshes(k, fails) ==
    /\ svc = NoCall
    /\ svc' = [op |-> "get_history", key |-> k, args |-> <<>>,
               ret |-> get_history(redis_client, fails, store, k),
               before |-> <<>>]
    /\ ttl' = Expire(store, ttl, k, ExpirySeconds(k))
    /\ UNCHANGED <<store, ticks, redis_client, llm, procVars>>

\* get_history(key)
SvcGetHistory(k, fails) ==
    /\ svc = NoCall
    /\ svc' = [op |-> "get_history", key |-> k, args |-> <<>>,
               ret |-> get_history(redis_client, fails, store, k),
               before |-> <<>>]
    /\ UNCHANGED <<redisVars, redis_client, llm, procVars>>

\* delete_key(key)
SvcDelete(k, fails) ==
    /\ svc = NoCall
    /\ store' = delete_key_store(redis_client, fails, store, k)
    /\ ttl' = delete_key_ttl(redis_client, fails, ttl, k)
    /\ svc' = [op |-> "delete_key", key |-> k, args |-> <<>>,
               ret |-> delete_key_count(redis_client, fails, store, k),
               before |-> <<>>]
    /\ UNCHANGED <<ticks, redis_client, llm, procVars>>

\* SvcPrompt with the stored list cut down to the window it shows
SvcPromptTrimsStore(k, m, s, w, fails) ==
    /\ svc = NoCall
    /\ svc' = [op |-> "generate_full_prompt", key |-> k, args |-> <<m, s, w>>,
               ret |-> generate_full_prompt(
                           get_history(redis_client, fails, store, k), m, s, w),
               before |-> get_history(redis_client, fails, store, k)]
    /\ store' = [store EXCEPT ![k] =
                     IF Len(@) > 2 * w THEN SubSeq(@, Len(@) - 2 * w + 1, Len(@)) ELSE @]
    /\ UNCHANGED <<ttl, ticks, redis_client, llm, procVars>>

\* generate_full_prompt(key, new_message, system_prompt, max_history)
SvcPrompt(k, m, s, w, fails) ==
    /\ svc = NoCall
    /\ svc' = [op |-> "generate_full_prompt", key |-> k, args |-> <<m, s, w>>,
               ret |-> generate_full_prompt(
                           get_history(redis_client, fails, store, k), m, s, w),
               before |-> get_history(redis_client, fails, store, k)]
    /\ UNCHANGED <<redisVars, redis_client, llm, procVars>>

\* generate_full_prompt called again with the arguments of the call that
\* just returned, nothing else having run in between
SvcPromptAgain(fails) ==
    /\ svc.op = "generate_full_prompt"
    /\ Len(svc.args) = 3
    /\ svc' = [op |-> "generate_full_prompt", key |-> svc.key,
               args |-> svc.args \o <<"again">>,
               ret |-> generate_full_prompt(
                           get_history(redis_client, fails, store, svc.key),
                           svc.args[1], svc.args[2], svc.args[3]),
               before |-> get_history(redis_client, fails, store, svc.key)]
    /\ UNCHANGED <<redisVars, redis_client, llm, procVars>>

\* the caller has taken the result of the call
SvcReturn ==
    /\ svc # NoCall
    /\ svc' = NoCall
    /\ UNCHANGED <<redisVars, redis_client, llm, procVars>>

\* the History Store methods: append, read, delete, and time passing
StoreNext ==
    \/ SvcReturn
    \/ \E k \in SvcKeys, u \in SvcMessages, r \in SvcReplies, f \in 0..3 :
           SvcSave(k, u, r, f)
    \/ \E k \in SvcKeys, f \in BOOLEAN : SvcGetHistory(k, f)
    \/ \E k \in SvcKeys, f \in BOOLEAN : SvcDelete(k, f)
    \/ Tick

\* the Transcript Assembler: prompts built over the transcripts appended
AssemblerNext ==
    \/ SvcReturn
    \/ \E k \in SvcKeys, u \in SvcMessages, r \in SvcReplies, f \in 0..3 :
           SvcSave(k, u, r, f)
    \/ \E k \in SvcKeys, m \in SvcMessages, s \in SvcSystemPrompts,
          w \in SvcWindows, f \in BOOLEAN : SvcPrompt(k, m, s, w, f)

\* the Transcript Assembler called twice in a row
RebuildNext ==
    \/ AssemblerNext
    \/ \E f \in BOOLEAN : SvcPromptAgain(f)

\* entries of a list that save_chat_history did not write: text that is
\* no JSON, a JSON string, an object whose role is neither user nor assistant
ForeignEntries ==
    {<<"x">>,
     <<QUOTE, "s", QUOTE>>,
     json_dumps(Msg(<<"s", "y", "s", "t", "e", "m">>, MsgHi))}

\* the key whose list other writers reach
ForeignKeys == {AnonKey(IdX)}

\* another client of the Redis instance pushes onto a chat list
ForeignPush(k, raw) ==
    /\ TotalStored + 1 <= MaxStored
    /\ svc = NoCall
    /\ store' = RPush(store, k, raw)
    /\ UNCHANGED <<ttl, ticks, redis_client, llm, procVars, svc>>

\* reads and prompts over lists that hold foreign entries among the turns
MalformedNext ==
    \/ SvcReturn
    \/ \E k \in ForeignKeys, u \in SvcMessages, r \in SvcReplies, f \in 0..3 :
           SvcSave(k, u, r, f)
    \/ \E k \in ForeignKeys, raw \in ForeignEntries : ForeignPush(k, raw)
    \/ \E k \in ForeignKeys, f \in BOOLEAN : SvcGetHistory(k, f)
    \/ \E k \in ForeignKeys, m \in SvcMessages, s \in SvcSystemPrompts,
          w \in SvcWindows, f \in BOOLEAN : SvcPrompt(k, m, s, w, f)

\* the service alone: the handlers' completion client plays no part
SvcInit == Init /\ llm = TRUE

SpecRebuild == SvcInit /\ [][RebuildNext]_vars

SpecMalformed == SvcInit /\ [][MalformedNext]_vars

SpecStore == SvcInit /\ [][StoreNext]_vars

SpecAssembler == SvcInit /\ [][AssemblerNext]_vars

(* ------------------------------------------------------------------ *)
(* Tokens and the completion call                                     *)
(* ------------------------------------------------------------------ *)

\* a Firebase ID token that verifies, carrying uid
TokenOf(uid) == <<"t", "o", "k", "=">> \o uid
BadToken == <<"b", "a", "d">>
\* the Authorization header of a request: absent, invalid or valid
Tokens == {None, BadToken} \cup {TokenOf(u) : u \in Identities}

\* verify_firebase_token(token), then the "uid" of the decoded token:
\* None when verify_id_token raises.  A token that verifies has a
\* non-empty subject, which is its uid.
verify_firebase_token(token) ==
    IF \E u \in Identities : token = TokenOf(u)
    THEN SubSeq(token, 5, Len(token))
    ELSE None

\* get_current_user_id: the status it raises, 0 when it returns the uid
AuthStatus(token) ==
    IF token = None THEN 403
    ELSE IF verify_firebase_token(token) = None THEN 401
    ELSE IF verify_firebase_token(token) = <<>> THEN 401
    ELSE 0

\* how GroqLLM._call can end
LlmOutcomes == {"ok", "timeout", "network", "format", "other"}

StrError == <<"E", "r", "r", "o", "r", ":", " ">>

\* what GroqLLM._call returns: the completion, or the text one of its
\* except clauses builds (what follows "Error: " is left out)
LlmReturn(how) ==
    CASE how = "ok" -> ReplyOk
      [] how = "timeout" -> StrError
      [] how = "network" -> StrError
      [] how = "format" -> StrError
      [] OTHER -> StrError

(* ------------------------------------------------------------------ *)
(* The handlers, one action per stretch between two outside calls     *)
(* ------------------------------------------------------------------ *)

\* IsBlank without the strip
IsBlankNoStrip(message) == message = <<>>

\* not request.message or not request.message.strip()
IsBlank(message) == message = <<>> \/ Strip(message) = <<>>

\* AnonIdMissing as  request.anonymousId is None
AnonIdIsNone(anonymousId) == anonymousId = None

\* not request.anonymousId
AnonIdMissing(anonymousId) == anonymousId = None \/ anonymousId = <<>>

Fail(code, text) ==
    [status_code |-> code, status |-> "error", response |-> <<>>,
     history |-> <<>>, detail |-> text]

Success(text, hist, note) ==
    [status_code |-> 200, status |-> "success", response |-> text,
     history |-> hist, detail |-> note]

\* a Redis call issued by p
Issue(p, op) == ops' = [ops EXCEPT ![p] = Append(@, op)]

\* the user type of the branch the handler took
UserType(p) ==
    IF req[p].endpoint \in {"public", "history_anon"}
    THEN "anonymous" ELSE "authenticated"

\* a handler that has returned hands its result over before anything else moves
NoneDone == \A q \in Procs : pc[q] # "done"

\* a request goes to the first free slot
Accept(p, r) ==
    /\ pc[p] = "idle"
    /\ NoneDone
    /\ \A q \in Procs : q < p => pc[q] # "idle"
    /\ started < MaxRequests
    /\ svc = NoCall
    /\ started' = started + 1
    /\ req' = [req EXCEPT ![p] = r]

Reject(p, code, text) ==
    /\ pc' = [pc EXCEPT ![p] = "done"]
    /\ result' = [result EXCEPT ![p] = Fail(code, text)]
    /\ UNCHANGED key

Enter(p, k, where) ==
    /\ pc' = [pc EXCEPT ![p] = where]
    /\ key' = [key EXCEPT ![p] = k]
    /\ UNCHANGED result

\* POST /llm/public, up to the key
PublicChat(p, message, anonymousId) ==
    /\ Accept(p, [endpoint |-> "public", message |-> message,
                  anonymousId |-> anonymousId, token |-> None])
    /\ IF ~llm THEN Reject(p, 500, "LLM not initialized")
       ELSE IF IsBlank(message) THEN Reject(p, 400, "Message cannot be empty")
       ELSE IF AnonIdMissing(anonymousId) THEN Reject(p, 400, "Anonymous ID is required")
       ELSE Enter(p, AnonKey(anonymousId), "prompt")
    /\ UNCHANGED <<redisVars, redis_client, llm, full_prompt, response, outcome, ops,
                   savedBy, lastClear, svc>>

\* POST /llm/authenticated, up to the key
AuthenticatedChat(p, message, token) ==
    /\ Accept(p, [endpoint |-> "authenticated", message |-> message,
                  anonymousId |-> None, token |-> token])
    /\ IF AuthStatus(token) # 0 THEN Reject(p, AuthStatus(token), "Not authenticated")
       ELSE IF ~llm THEN Reject(p, 500, "LLM not initialized")
       ELSE IF IsBlank(message) THEN Reject(p, 400, "Message cannot be empty")
       ELSE Enter(p, AuthKey(verify_firebase_token(token)), "prompt")
    /\ UNCHANGED <<redisVars, redis_client, llm, full_prompt, response, outcome, ops,
                   savedBy, lastClear, svc>>

SystemPromptOf(p) ==
    IF req[p].endpoint = "public" THEN SYSTEM_PROMPT_PUBLIC ELSE SYSTEM_PROMPT_AUTHENTICATED

\* redis_service.generate_full_prompt(redis_key, request.message, SYSTEM_PROMPT)
BuildPrompt(p, fails) ==
    /\ pc[p] = "prompt"
    /\ NoneDone
    /\ LET pr == generate_full_prompt(
                     get_history(redis_client, fails, store, key[p]),
                     req[p].message, SystemPromptOf(p), DEFAULT_MAX_HISTORY)
       IN IF pr.raised
          THEN /\ pc' = [pc EXCEPT ![p] = "done"]
               /\ result' = [result EXCEPT ![p] = Fail(500, "Error generating response")]
               /\ UNCHANGED full_prompt
          ELSE /\ pc' = [pc EXCEPT ![p] = "llm"]
               /\ full_prompt' = [full_prompt EXCEPT ![p] = pr.text]
               /\ UNCHANGED result
    /\ IF redis_client
       THEN Issue(p, IF fails THEN "lrange raised" ELSE "lrange")
       ELSE UNCHANGED ops
    /\ UNCHANGED <<redisVars, redis_client, llm, req, key, response, outcome, started,
                   savedBy, lastClear, svc>>

\* response = llm._call(full_prompt)
LlmCall(p, how) ==
    /\ pc[p] = "llm"
    /\ NoneDone
    /\ full_prompt' = [full_prompt EXCEPT ![p] = None]
    /\ outcome' = [outcome EXCEPT ![p] = IF how = "ok" THEN "ok" ELSE "failed"]
    /\ response' = [response EXCEPT ![p] = LlmReturn(how)]
    /\ ops' = [ops EXCEPT ![p] = Append(@, "llm")]
    /\ pc' = [pc EXCEPT ![p] = "save"]
    /\ UNCHANGED <<redisVars, redis_client, llm, req, key, result, started,
                   savedBy, lastClear, svc>>

\* the handler returns its success body
ReturnChat(p) ==
    /\ pc' = [pc EXCEPT ![p] = "done"]
    /\ result' = [result EXCEPT ![p] = Success(response[p], <<>>, "")]

\* save_chat_history: the first rpush (or no client: return False at once)
SaveUser(p, fails) ==
    /\ pc[p] = "save"
    /\ NoneDone
    /\ IF ~redis_client
       THEN /\ ReturnChat(p)
            /\ UNCHANGED <<store, ops, savedBy, lastClear>>
       ELSE /\ Issue(p, IF fails THEN "rpush raised" ELSE "rpush")
            /\ IF fails
               THEN /\ ReturnChat(p)
                    /\ UNCHANGED <<store, savedBy, lastClear>>
               ELSE /\ store' = RPush(store, key[p],
                                      json_dumps(TurnMessages(req[p].message, response[p])[1]))
                    /\ lastClear' = [lastClear EXCEPT ![key[p]] = "none"]
                    /\ savedBy' = [savedBy EXCEPT ![key[p]] = @ \cup {UserType(p)}]
                    /\ pc' = [pc EXCEPT ![p] = "save2"]
                    /\ UNCHANGED result
    /\ UNCHANGED <<ttl, ticks, redis_client, llm, req, key, full_prompt, response, outcome,
                   started, svc>>

\* save_chat_history: the second rpush
SaveAssistant(p, fails) ==
    /\ pc[p] = "save2"
    /\ NoneDone
    /\ Issue(p, IF fails THEN "rpush raised" ELSE "rpush")
    /\ IF fails
       THEN /\ ReturnChat(p)
            /\ UNCHANGED <<store, savedBy, lastClear>>
       ELSE /\ store' = RPush(store, key[p],
                              json_dumps(TurnMessages(req[p].message, response[p])[2]))
            /\ lastClear' = [lastClear EXCEPT ![key[p]] = "none"]
            /\ savedBy' = [savedBy EXCEPT ![key[p]] = @ \cup {UserType(p)}]
            /\ pc' = [pc EXCEPT ![p] = "expire"]
            /\ UNCHANGED result
    /\ UNCHANGED <<ttl, ticks, redis_client, llm, req, key, full_prompt, response, outcome,
                   started, svc>>

\* save_chat_history: expire, then the handler returns
SaveExpire(p, fails) ==
    /\ pc[p] = "expire"
    /\ NoneDone
    /\ Issue(p, IF fails THEN "expire raised" ELSE "expire")
    /\ ttl' = IF fails THEN ttl ELSE Expire(store, ttl, key[p], ExpirySeconds(key[p]))
    /\ ReturnChat(p)
    /\ UNCHANGED <<store, ticks, redis_client, llm, req, key, full_prompt, response, outcome,
                   started, savedBy, lastClear, svc>>

\* GET /llm/history, up to the key
GetChatHistory(p, token, anon_id) ==
    LET uid == IF token # None THEN verify_firebase_token(token) ELSE None IN
    /\ IF uid # None
       THEN /\ Accept(p, [endpoint |-> "history_auth", message |-> <<>>,
                          anonymousId |-> anon_id, token |-> token])
            /\ Enter(p, AuthKey(uid), "history")
       ELSE /\ Accept(p, [endpoint |-> "history_anon", message |-> <<>>,
                          anonymousId |-> anon_id, token |-> token])
            /\ IF ~AnonIdMissing(anon_id)
               THEN Enter(p, AnonKey(anon_id), "history")
               ELSE Reject(p, 400, "Either provide authentication token or anonymousId")
    /\ UNCHANGED <<redisVars, redis_client, llm, full_prompt, response, outcome, ops,
                   savedBy, lastClear, svc>>

\* history = redis_service.get_history(redis_key), and the result
ReadHistory(p, fails) ==
    /\ pc[p] = "history"
    /\ NoneDone
    /\ pc' = [pc EXCEPT ![p] = "done"]
    /\ result' = [result EXCEPT ![p] =
           Success(<<>>, get_history(redis_client, fails, store, key[p]), UserType(p))]
    /\ IF redis_client
       THEN Issue(p, IF fails THEN "lrange raised" ELSE "lrange")
       ELSE UNCHANGED ops
    /\ UNCHANGED <<redisVars, redis_client, llm, req, key, full_prompt, response, outcome,
                   started, savedBy, lastClear, svc>>

\* DELETE /llm/clearchat, up to the key
ClearChatHistory(p, token) ==
    /\ Accept(p, [endpoint |-> "clear", message |-> <<>>,
                  anonymousId |-> None, token |-> token])
    /\ IF AuthStatus(token) # 0 THEN Reject(p, AuthStatus(token), "Not authenticated")
       ELSE Enter(p, AuthKey(verify_firebase_token(token)), "clear")
    /\ UNCHANGED <<redisVars, redis_client, llm, full_prompt, response, outcome, ops,
                   savedBy, lastClear, svc>>

\* the message clear_chat_history returns for a deleted_count
ClearMessage(deleted_count) ==
    IF deleted_count > 0
    THEN "Chat history cleared successfully"
    ELSE "No chat history found to clear"

\* deleted_count = redis_service.delete_key(redis_key), and the result
DeleteHistory(p, fails) ==
    /\ pc[p] = "clear"
    /\ NoneDone
    /\ store' = delete_key_store(redis_client, fails, store, key[p])
    /\ ttl' = delete_key_ttl(redis_client, fails, ttl, key[p])
    /\ pc' = [pc EXCEPT ![p] = "done"]
    /\ result' = [result EXCEPT ![p] =
           Success(<<>>, <<>>,
                   ClearMessage(delete_key_count(redis_client, fails, store, key[p])))]
    /\ lastClear' = [lastClear EXCEPT ![key[p]] =
           ClearMessage(delete_key_count(redis_client, fails, store, key[p]))]
    /\ IF redis_client
       THEN Issue(p, IF fails THEN "delete raised" ELSE "delete")
       ELSE UNCHANGED ops
    /\ UNCHANGED <<ticks, redis_client, llm, req, key, full_prompt, response, outcome,
                   started, savedBy, svc>>

\* the result has gone to the client; the slot takes the next request
Respond(p) ==
    /\ pc[p] = "done"
    /\ pc' = [pc EXCEPT ![p] = "idle"]
    /\ req' = [req EXCEPT ![p] = NoRequest]
    /\ key' = [key EXCEPT ![p] = None]
    /\ full_prompt' = [full_prompt EXCEPT ![p] = None]
    /\ response' = [response EXCEPT ![p] = None]
    /\ outcome' = [outcome EXCEPT ![p] = "none"]
    /\ result' = [result EXCEPT ![p] = NoResult]
    /\ ops' = [ops EXCEPT ![p] = <<>>]
    /\ UNCHANGED <<redisVars, redis_client, llm, started, savedBy, lastClear, svc>>

Next ==
    \/ \E p \in Procs, m \in Messages, a \in AnonymousIds : PublicChat(p, m, a)
    \/ \E p \in Procs, m \in Messages, t \in Tokens : AuthenticatedChat(p, m, t)
    \/ \E p \in Procs, f \in BOOLEAN : BuildPrompt(p, f)
    \/ \E p \in Procs, how \in LlmOutcomes : LlmCall(p, how)
    \/ \E p \in Procs, f \in BOOLEAN : SaveUser(p, f)
    \/ \E p \in Procs, f \in BOOLEAN : SaveAssistant(p, f)
    \/ \E p \in Procs, f \in BOOLEAN : SaveExpire(p, f)
    \/ \E p \in Procs, t \in Tokens, a \in AnonymousIds : GetChatHistory(p, t, a)
    \/ \E p \in Procs, f \in BOOLEAN : ReadHistory(p, f)
    \/ \E p \in Procs, t \in Tokens : ClearChatHistory(p, t)
    \/ \E p \in Procs, f \in BOOLEAN : DeleteHistory(p, f)
    \/ \E p \in Procs : Respond(p)

\* the handlers over Redis; expiry over time is followed in SpecStore
Spec == Init /\ [][Next]_vars

(* ------------------------------------------------------------------ *)
(* Properties                                                         *)
(* ------------------------------------------------------------------ *)

ChatEndpoints == {"public", "authenticated"}
BlankMessages == {<<>>, <<" ">>}
StrClearedOk == "Chat history cleared successfully"

\* the keys whose identity part is empty, or the text of None
EmptyIdentityKeys ==
    {AnonKey(<<>>), AuthKey(<<>>), AnonKey(NoneText), AuthKey(NoneText)}

\* the request in slot p carries no identity: no anonymousId on the public
\* path, no Authorization header on the authenticated paths, neither on
\* the history path
NoIdentity(p) ==
    \/ /\ req[p].endpoint = "public"
       /\ req[p].anonymousId \in {None, <<>>}
    \/ /\ req[p].endpoint \in {"authenticated", "clear"}
       /\ req[p].token = None
    \/ /\ req[p].endpoint = "history_anon"
       /\ req[p].anonymousId \in {None, <<>>}

\* the calls slot p made that changed a list
Pushed(p) == \E i \in 1..Len(ops[p]) : ops[p][i] = "rpush"

\* C1: when the completion call fails, the chat handler appends nothing:
\* no request whose completion failed has pushed onto its key.
C1_NoAppendAfterFailedCompletion ==
    \A p \in Procs : outcome[p] = "failed" => ~Pushed(p)

\* C2: when the completion call fails, the chat handler ends in an error
\* result (500 or 502), never in a success result carrying a reply.
C2_FailedCompletionSurfaces ==
    \A p \in Procs :
        (pc[p] = "done" /\ outcome[p] = "failed")
            => (result[p].status # "success" /\ result[p].status_code \in {500, 502})

\* C3: the anonymous key of an identity differs from the authenticated key
\* of any identity, the same one included; so a list is only ever pushed
\* onto by one user type, and a history read by one user type holds
\* nothing the other one saved.
C3_NamespacesDisjoint ==
    /\ \A a \in KeyIdentities \cup {<<>>, NoneText} :
           \A b \in KeyIdentities \cup {<<>>, NoneText} : AnonKey(a) # AuthKey(b)
    /\ \A k \in Keys : Cardinality(savedBy[k]) <= 1
    /\ \A p \in Procs :
           (pc[p] \notin {"idle"} /\ key[p] # None)
               => savedBy[key[p]] \subseteq {UserType(p)}

\* both user types have saved a turn under the same identity string
C3_Witness ==
    /\ savedBy[AnonKey(IdX)] = {"anonymous"}
    /\ savedBy[AuthKey(IdX)] = {"authenticated"}
    /\ store[AnonKey(IdX)] # <<>>
    /\ store[AuthKey(IdX)] # <<>>

\* C4: a request without an identity is rejected before any Redis call:
\* it makes no call, ends in an error (a 4xx one when nothing else is
\* wrong with it), and no request at all makes a Redis call on a key
\* whose identity part is empty.
C4_EmptyIdentityRejected ==
    \A p \in Procs :
        /\ ops[p] # <<>> => key[p] \notin EmptyIdentityKeys
        /\ (pc[p] # "idle" /\ NoIdentity(p)) =>
               /\ pc[p] = "done"
               /\ ops[p] = <<>>
               /\ key[p] = None
               /\ result[p].status = "error"
               /\ (llm /\ req[p].message \notin BlankMessages)
                      => result[p].status_code \in {400, 401, 403}

\* a public chat with an empty anonymousId and a proper message is
\* refused with 400 while a transcript is stored
C4_Witness ==
    \E p \in Procs :
        /\ pc[p] = "done"
        /\ req[p].endpoint = "public"
        /\ req[p].anonymousId = <<>>
        /\ req[p].message = MsgHi
        /\ result[p].status_code = 400
        /\ store[AnonKey(IdX)] # <<>>

\* C5: a chat request with an empty or blank message is refused before
\* any Redis or completion call: it makes no call, so lists and timeouts
\* stay as they are, and ends in an error, 400 when the completion client
\* is set and the caller is identified.
C5_BlankMessageRejected ==
    \A p \in Procs :
        (req[p].endpoint \in ChatEndpoints /\ req[p].message \in BlankMessages) =>
            /\ pc[p] = "done"
            /\ ops[p] = <<>>
            /\ key[p] = None
            /\ result[p].status = "error"
            /\ (llm /\ (req[p].endpoint = "authenticated"
                           => verify_firebase_token(req[p].token) # None))
                   => result[p].status_code = 400

\* a whitespace-only message is refused with 400 on a session that has
\* a stored transcript
C5_Witness ==
    \E p \in Procs :
        /\ pc[p] = "done"
        /\ req[p].endpoint = "public"
        /\ req[p].message = <<" ">>
        /\ req[p].anonymousId = IdX
        /\ result[p].status_code = 400
        /\ Len(store[AnonKey(IdX)]) = 2
        /\ ttl[AnonKey(IdX)] = TTL_ANON

\* the two messages of a turn, as a reader expects them
ExpectedTurn(u, r) ==
    <<[role |-> RoleUser, content |-> u], [role |-> RoleAssistant, content |-> r]>>

\* C6: after a save_chat_history that returned True, get_history on the
\* key (the store answering) is the history from before the call followed
\* by exactly the user message and the assistant reply.
C6_AppendReadRoundTrip ==
    (svc.op = "save" /\ svc.ret = TRUE) =>
        get_history(redis_client, FALSE, store, svc.key)
            = svc.before \o ExpectedTurn(svc.args[1], svc.args[2])

\* a second turn, with quote and backslash in it, saved after a first
C6_Witness ==
    /\ svc.op = "save"
    /\ svc.ret = TRUE
    /\ Len(svc.before) = 2
    /\ svc.args[1] = MsgQuote
    /\ Len(store[svc.key]) = 4

\* the lines between the "Previous conversation:" header and the
\* separator that follows it
HistoryBlock(parts) ==
    IF \E i \in 1..Len(parts) : parts[i] = StrPrevious
    THEN LET h == CHOOSE i \in 1..Len(parts) : parts[i] = StrPrevious
             e == CHOOSE j \in (h + 1)..Len(parts) :
                      /\ parts[j] = StrSeparator
                      /\ \A l \in (h + 1)..(j - 1) : parts[l] # StrSeparator
         IN SubSeq(parts, h + 1, e - 1)
    ELSE <<>>

MinOf(a, b) == IF a < b THEN a ELSE b

\* the last n elements
LastN(seq, n) == SubSeq(seq, Len(seq) - n + 1, Len(seq))

\* "User: <content>\n" or "Assistant: <content>\n"
ExpectedLine(msg) ==
    (IF msg.role = RoleUser
     THEN <<"U", "s", "e", "r", ":", " ">>
     ELSE <<"A", "s", "s", "i", "s", "t", "a", "n", "t", ":", " ">>)
        \o msg.content \o <<NEWLINE>>

\* C7: for a transcript of L messages and a window of max_history turns,
\* zero included, the prompt's history block lists exactly the last
\* min(L, 2 * max_history) messages, in order.
C7_HistoryWindow ==
    svc.op = "generate_full_prompt" =>
        LET shown == LastN(svc.before, MinOf(Len(svc.before), 2 * svc.args[3]))
        IN HistoryBlock(svc.ret.parts) = [i \in 1..Len(shown) |-> ExpectedLine(shown[i])]

\* C8 as stated: once clear_chat_history has returned for a key and
\* nothing has been pushed since, get_history on the key is empty.
C8_EmptyAfterClear ==
    \A k \in Keys :
        lastClear[k] # "none" => get_history(redis_client, FALSE, store, k) = <<>>

\* C8 amended: once clear_chat_history has reported the key removed
\* ("Chat history cleared successfully") and nothing has been pushed
\* since, get_history on the key is empty.
C8_EmptyAfterReportedClear ==
    \A k \in Keys :
        lastClear[k] = StrClearedOk => get_history(redis_client, FALSE, store, k) = <<>>

\* a stored transcript has been cleared and the clear reported it
C8_Witness ==
    /\ lastClear[AuthKey(IdX)] = StrClearedOk
    /\ savedBy[AuthKey(IdX)] = {"authenticated"}
    /\ store[AuthKey(IdX)] = <<>>

\* C9: after a save_chat_history that returned True the key's timeout
\* is the full one of its prefix: 86400 for chat-anon:, 2592000 for
\* chat-auth:.
C9_TtlResetOnAppend ==
    (svc.op = "save" /\ svc.ret = TRUE) =>
        /\ StartsWith(svc.key, ChatAnonPrefix) => ttl[svc.key] = 86400
        /\ StartsWith(svc.key, ChatAuthPrefix) => ttl[svc.key] = 2592000

\* C10: when the history read for the key is empty (so is the trimmed
\* one) and the system prompt is not, the prompt holds
\* "System Context: <system prompt>", has no "Previous conversation"
\* block, and ends with "User: <message>", a newline and "Assistant:".
C10_FirstTurnPrompt ==
    (/\ svc.op = "generate_full_prompt"
     /\ svc.before = <<>>
     /\ svc.args[2] # <<>>) =>
        /\ ~svc.ret.raised
        /\ Contains(svc.ret.text, StrSystemContext \o svc.args[2])
        /\ \A i \in 1..Len(svc.ret.parts) : svc.ret.parts[i] # StrPrevious
        /\ ~Contains(svc.ret.text, StrPrevious)
        /\ EndsWith(svc.ret.text,
                    <<"U", "s", "e", "r", ":", " ">> \o svc.args[1]
                        \o <<NEWLINE>> \o <<"A", "s", "s", "i", "s", "t", "a", "n", "t", ":">>)

\* a first-turn prompt with the default window, once on an empty key and
\* once on a key whose read failed
C10_Witness ==
    /\ svc.op = "generate_full_prompt"
    /\ svc.before = <<>>
    /\ svc.args[2] = <<"S">>
    /\ svc.args[3] = DEFAULT_MAX_HISTORY
    /\ store[svc.key] # <<>>

StrSystemContextLabel == <<"S", "y", "s", "t", "e", "m", " ", "C", "o", "n", "t", "e", "x", "t", ":">>

\* C11: when the history read for the key is not empty, the prompt has a
\* "Previous conversation" block whose lines are "User: <content>" or
\* "Assistant: <content>" for a non-empty tail of that history, in stored
\* order, and the text "System Context:" is nowhere in it.
C11_LaterTurnPrompt ==
    (svc.op = "generate_full_prompt" /\ svc.before # <<>>) =>
        /\ ~svc.ret.raised
        /\ Contains(svc.ret.text, StrPrevious)
        /\ \E n \in 1..Len(svc.before) :
               HistoryBlock(svc.ret.parts)
                   = [i \in 1..n |-> ExpectedLine(LastN(svc.before, n)[i])]
        /\ ~Contains(svc.ret.text, StrSystemContextLabel)
        /\ \A i \in 1..Len(svc.ret.parts) :
               ~StartsWith(svc.ret.parts[i], StrSystemContextLabel)

\* a prompt built with a system prompt over two stored turns, the window
\* showing the later one
C11_Witness ==
    /\ svc.op = "generate_full_prompt"
    /\ Len(svc.before) = 4
    /\ svc.args[2] = <<"S">>
    /\ svc.args[3] = MaxWindow
    /\ Len(HistoryBlock(svc.ret.parts)) = 2

\* the prompt of a first turn, written out
FirstTurnText(system_prompt, message) ==
    StrSystemContextLabel \o <<" ">> \o system_prompt \o <<NEWLINE, "-", "-", "-", NEWLINE>>
        \o <<"U", "s", "e", "r", ":", " ">> \o message \o <<NEWLINE>>
        \o <<"A", "s", "s", "i", "s", "t", "a", "n", "t", ":">>

\* the history read of slot p did not reach the store
StoreMissed(p) == ~redis_client \/ (ops[p] # <<>> /\ ops[p][1] = "lrange raised")

\* C12: the store being unreachable never fails a chat request.  A
\* request whose history read did not reach the store goes to the
\* completion call with the first-turn prompt; every chat request that
\* got its key reaches the completion call; and one whose completion
\* call succeeded ends with 200, status success and the completion text
\* as it came, whatever happened to the append.
C12_StoreDownStillReplies ==
    \A p \in Procs :
        req[p].endpoint \in ChatEndpoints =>
            /\ (pc[p] = "llm" /\ StoreMissed(p)) =>
                   full_prompt[p] = FirstTurnText(
                       IF req[p].endpoint = "public" THEN <<"P">> ELSE <<"A">>,
                       req[p].message)
            /\ (pc[p] = "done" /\ key[p] # None) => outcome[p] # "none"
            /\ (pc[p] = "done" /\ outcome[p] = "ok") =>
                   /\ result[p].status_code = 200
                   /\ result[p].status = "success"
                   /\ result[p].response = ReplyOk

\* a reply returned though the read of a stored transcript and the
\* append both failed at the store
C12_Witness ==
    \E p \in Procs :
        /\ pc[p] = "done"
        /\ outcome[p] = "ok"
        /\ ops[p] = <<"lrange raised", "llm", "rpush raised">>
        /\ store[key[p]] # <<>>
        /\ result[p].status = "success"
        /\ result[p].response = ReplyOk

\* a Message: an object with role and content, the role user or assistant
WellFormedMessage(m) ==
    /\ DOMAIN m = {"role", "content"}
    /\ m.role \in {RoleUser, RoleAssistant}

\* C13: whatever the list holds, get_history returns well-formed messages
\* only, and generate_full_prompt on the key returns a prompt without
\* raising.
C13_MalformedEntriesHarmless ==
    /\ svc.op = "get_history" =>
           \A i \in 1..Len(svc.ret) : WellFormedMessage(svc.ret[i])
    /\ svc.op = "generate_full_prompt" => ~svc.ret.raised

C15_TtlByPrefix ==
    (svc.op = "save" /\ svc.ret = TRUE) =>
        ttl[svc.key] = IF StartsWith(svc.key, ChatAnonPrefix) THEN 86400 ELSE 2592000

\* C16: after a save_chat_history call, failed or not, the history of
\* the key is the one from before the call or that one followed by both
\* messages of the turn; after a call that returned False it is the one
\* from before.
C16_AppendAllOrNothing ==
    svc.op = "save" =>
        LET after == get_history(redis_client, FALSE, store, svc.key) IN
        /\ \/ after = svc.before
           \/ after = svc.before \o ExpectedTurn(svc.args[1], svc.args[2])
        /\ svc.ret = FALSE => after = svc.before

\* C18: a save_chat_history call that added messages to the list of a
\* key left the key with the full timeout of the policy, not without one
\* and not with what remained of an earlier one.
C18_TtlRefreshedWithMessages ==
    (/\ svc.op = "save"
     /\ Len(get_history(redis_client, FALSE, store, svc.key)) > Len(svc.before)) =>
        ttl[svc.key] \in {86400, 2592000}

\* the number of rpush calls slot p has made that went through
RECURSIVE PushCount(_)
PushCount(calls) ==
    IF calls = <<>> THEN 0
    ELSE (IF Head(calls) = "rpush" THEN 1 ELSE 0) + PushCount(Tail(calls))

\* the chat request in slot p got its completion and pushed both messages
AppendedTurn(p) ==
    /\ req[p].endpoint \in ChatEndpoints
    /\ outcome[p] = "ok"
    /\ pc[p] \in {"expire", "done"}
    /\ PushCount(ops[p]) = 2

\* C17: when two chat requests on one key have run concurrently and both
\* have pushed their turn, the list holding just these two turns is
\* user, assistant, user, assistant, each user message followed by the
\* reply to it.
C17_ConcurrentTurnsContiguous ==
    \A p \in Procs : \A q \in Procs :
        (/\ p # q
         /\ AppendedTurn(p)
         /\ AppendedTurn(q)
         /\ key[p] = key[q]
         /\ Len(store[key[p]]) = 4) =>
            LET h == get_history(TRUE, FALSE, store, key[p]) IN
            /\ Len(h) = 4
            /\ h[1].role = RoleUser /\ h[2].role = RoleAssistant
            /\ h[3].role = RoleUser /\ h[4].role = RoleAssistant
            /\ {<<h[1].content, h[2].content>>, <<h[3].content, h[4].content>>}
                   = {<<req[p].message, response[p]>>, <<req[q].message, response[q]>>}

\* C19: with an empty history read and an empty system prompt,
\* generate_full_prompt returns without raising a prompt that has no
\* "System Context:" in it: just "User: <message>", a newline and
\* "Assistant:".
C19_NoSystemBlockWithoutPrompt ==
    (/\ svc.op = "generate_full_prompt"
     /\ svc.before = <<>>
     /\ svc.args[2] = <<>>) =>
        /\ ~svc.ret.raised
        /\ ~Contains(svc.ret.text, StrSystemContextLabel)
        /\ svc.ret.text = <<"U", "s", "e", "r", ":", " ">> \o svc.args[1] \o <<NEWLINE>>
                              \o <<"A", "s", "s", "i", "s", "t", "a", "n", "t", ":">>

\* s is the beginning of t
IsPrefix(s, t) == Len(s) <= Len(t) /\ SubSeq(t, 1, Len(s)) = s

\* the step is a clear_chat_history deleting key k
ClearsKey(k) ==
    \E p \in Procs : pc[p] = "clear" /\ key[p] = k /\ pc'[p] = "done"

\* C20: in every step that is not the delete of a key, the history of
\* the key before the step is the beginning of its history after it: the
\* appends, reads, prompts and expire calls of the handlers leave what is
\* stored in place and in order, so an earlier read is the beginning of
\* any later one.
C20_AppendOnly ==
    [][\A k \in Keys :
           ~ClearsKey(k) =>
               IsPrefix(get_history(TRUE, FALSE, store, k),
                        get_history(TRUE, FALSE, store', k))]_vars

\* a read returned the two messages of a turn another request appended,
\* while the list still holds exactly them under its timeout
C20_Witness ==
    \E p \in Procs :
        /\ pc[p] = "done"
        /\ req[p].endpoint = "history_anon"
        /\ result[p].history = ExpectedTurn(MsgQuote, ReplyOk)
        /\ Len(store[key[p]]) = 2
        /\ ttl[key[p]] = TTL_ANON

\* C21: the timeout of a key changes in three kinds of step only: a
\* save_chat_history on the key that returned True, which sets the full
\* value; time passing, which lowers it; the delete of the key.  Reads
\* and saves that returned False leave it as it is.  While time passes
\* every timeout that is set goes down, and the key whose timeout has run
\* out is gone: get_history on it is empty.
C21_TtlMovesOnlyByAppend ==
    [][\A k \in Keys :
           /\ ttl'[k] # ttl[k] =>
                  \/ /\ svc = NoCall
                     /\ svc'.op = "save"
                     /\ svc'.ret = TRUE
                     /\ svc'.key = k
                     /\ ttl'[k] \in {86400, 2592000}
                  \/ /\ ticks' # ticks
                     /\ ttl'[k] < ttl[k]
                  \/ /\ svc = NoCall
                     /\ svc'.op = "delete_key"
                     /\ svc'.key = k
                     /\ get_history(TRUE, FALSE, store', k) = <<>>
           /\ (ticks' # ticks /\ ttl[k] > 0) =>
                  /\ ttl'[k] < ttl[k]
                  /\ ttl'[k] = 0 => get_history(TRUE, FALSE, store', k) = <<>>]_vars

\* half a day after the append a read returns the turn and the key's
\* timeout is the half day that is left, not the full one
C21_Witness ==
    /\ svc.op = "get_history"
    /\ svc.key = AnonKey(IdX)
    /\ Len(svc.ret) = 2
    /\ ticks = 1
    /\ ttl[AnonKey(IdX)] = TTL_ANON \div 2

\* no save_chat_history on key k is between its first rpush and its return
NoAppendInProgress(k) ==
    \A p \in Procs : ~(key[p] = k /\ pc[p] \in {"save2", "expire"})

\* C22: whatever clears and chat requests have run against a key, once
\* no append on the key is in progress its history is empty or starts
\* with a user message: no assistant message stands without the user
\* message before it.
C22_NoOrphanAssistant ==
    \A k \in Keys :
        NoAppendInProgress(k) =>
            LET h == get_history(TRUE, FALSE, store, k) IN
            h = <<>> \/ h[1].role = RoleUser

\* the key of the (trust class, identity) pair the request in slot p is
\* for, written out from the request
PairKey(p) ==
    IF req[p].endpoint \in {"public", "history_anon"}
    THEN <<"c", "h", "a", "t", "-", "a", "n", "o", "n", ":">>
             \o req[p].anonymousId \o <<":", "m", "a", "i", "n">>
    ELSE <<"c", "h", "a", "t", "-", "a", "u", "t", "h", ":">>
             \o SubSeq(req[p].token, 5, Len(req[p].token)) \o <<":", "m", "a", "i", "n">>

\* slot p takes a step of its handler
Steps(p) == pc[p] \notin {"idle", "done"} /\ pc'[p] # pc[p]

\* C23: a step that changes the list or the timeout of a key is a step
\* of a request for the pair that key belongs to, so every operation
\* leaves the lists and timeouts of all other keys as they are; and the
\* history a request returns is what is stored under the key of its own
\* pair (or empty).
C23_PerKeyIsolation ==
    [][/\ \A k \in Keys :
              (store'[k] # store[k] \/ ttl'[k] # ttl[k]) =>
                  \E p \in Procs : Steps(p) /\ PairKey(p) = k
       /\ \A p \in Procs :
              (Steps(p) /\ pc[p] = "history") =>
                  result'[p].history
                      \in {<<>>, get_history(TRUE, FALSE, store, PairKey(p))}]_vars

\* a clear for the authenticated identity x has issued its DEL while the
\* anonymous transcript of the same identity string was stored, and that
\* transcript and its timeout are as they were
C23_Witness ==
    \E p \in Procs :
        /\ pc[p] = "done"
        /\ req[p].endpoint = "clear"
        /\ ops[p] = <<"delete">>
        /\ key[p] = AuthKey(IdX)
        /\ get_history(TRUE, FALSE, store, AnonKey(IdX)) = ExpectedTurn(MsgHi, ReplyOk)
        /\ ttl[AnonKey(IdX)] = TTL_ANON

====
